---- MODULE Spec2Model ----
(***************************************************************************)
(* User-management REST API (routes/user.js, models/User.js,               *)
(* middleware/upload.js).  Requests run as independent tasks that suspend  *)
(* at every await (findOne, save, deleteOne); each action below is the     *)
(* code a request runs between two such points.  The persistent state is   *)
(* the users collection and the images/ directory.                         *)
(*                                                                         *)
(* Strings are sequences of one-character strings, so that validators and  *)
(* normalizeEmail are computed character by character.  A null field is    *)
(* the empty sequence, a missing document id or status is 0.               *)
(***************************************************************************)
EXTENDS Integers, Sequences, FiniteSets, Bags, TLC

\* ---------------------------------------------------------------- bounds
MaxInFlight == 2    \* requests in flight at the same time
MaxRequests == 4    \* requests received in one behaviour
MaxClock == 1       \* largest value of Date.now()


\* ---------------------------------------------------------------- characters
UpperChars == <<"A", "B", "C", "P">>
LowerChars == <<"a", "b", "c", "p">>
Uppercase == {UpperChars[i] : i \in DOMAIN UpperChars}
Lowercase == {LowerChars[i] : i \in DOMAIN LowerChars} \cup {"d", "o", "r", "s", "w"}
Numbers == {"0", "1"}
Symbols == {"!", "@", ".", " "}
Whitespace == {" "}

toLowerCase(c) ==
  IF c \in Uppercase
    THEN LowerChars[CHOOSE i \in DOMAIN UpperChars : UpperChars[i] = c]
    ELSE c

Count(s, class) == Cardinality({i \in DOMAIN s : s[i] \in class})

\* ---------------------------------------------------------------- validators
\* check("email").isEmail(): one "@", a non-empty local part, and a domain
\* with a "." that has a label before it and at least two characters after.
isEmail(s) ==
  /\ Count(s, {"@"}) = 1
  /\ Count(s, Whitespace) = 0
  /\ LET at == CHOOSE i \in DOMAIN s : s[i] = "@"
     IN /\ at > 1
        /\ \E d \in (at + 2)..(Len(s) - 2) : s[d] = "."
        /\ s[Len(s)] # "."

\* .normalizeEmail(): split at the last "@", lower-case both parts, join.
normalizeEmail(s) ==
  IF Count(s, {"@"}) = 0
    THEN <<"@">> \o [i \in DOMAIN s |-> toLowerCase(s[i])]
    ELSE [i \in DOMAIN s |-> toLowerCase(s[i])]

\* check("fullName").matches(/^[A-Za-z\s]+$/)
matchesFullName(s) ==
  /\ Len(s) >= 1
  /\ \A i \in DOMAIN s : s[i] \in Uppercase \cup Lowercase \cup Whitespace

minLength == 8

\* check("password").isStrongPassword({minLength: 8, minUppercase: 1, ...})
isStrongPassword(s) ==
  /\ Len(s) >= minLength
  /\ Count(s, Uppercase) >= 1
  /\ Count(s, Lowercase) >= 1
  /\ Count(s, Numbers) >= 1
  /\ Count(s, Symbols) >= 1

\* a create route whose validators report nothing.
NoErrors(email, fullName, password) == {}

\* validationResult(req) of each route: the fields whose check failed.
CreateErrors(email, fullName, password) ==
  {f \in {"email", "fullName", "password"} :
     \/ f = "email" /\ ~isEmail(email)
     \/ f = "fullName" /\ ~matchesFullName(fullName)
     \/ f = "password" /\ ~isStrongPassword(password)}

EditErrors(email, fullName, password) ==
  {f \in {"fullName", "password"} :
     \/ f = "fullName" /\ ~matchesFullName(fullName)
     \/ f = "password" /\ ~isStrongPassword(password)}

DeleteErrors(email) ==
  {f \in {"email"} : ~isEmail(email)}

\* ---------------------------------------------------------------- inputs
MixedCase == <<"A", "@", "b", ".", "c", "o">>
LowerCase == <<"c", "@", "b", ".", "c", "o">>
Malformed == <<"a", "b">>
Emails == {MixedCase, LowerCase, Malformed}

Letters == <<"A", " ", "B">>
OneLetter == <<"C">>
WithDigit == <<"A", "1">>

Strong == <<"P", "a", "s", "s", "w", "o", "r", "d", "1", "!">>
Weak == <<"p", "a", "s", "s", "w", "o", "r", "d", "1">>
Passwords == {Strong, Weak}

\* request bodies of /create and /edit: the valid ones, and one per broken field.
Bodies ==
  [email : {LowerCase}, fullName : {Letters, OneLetter}, password : {Strong}]
  \cup { [email |-> MixedCase, fullName |-> Letters, password |-> Strong],
         [email |-> Malformed, fullName |-> OneLetter, password |-> Strong],
         [email |-> LowerCase, fullName |-> WithDigit, password |-> Strong],
         [email |-> LowerCase, fullName |-> OneLetter, password |-> Weak] }

\* multipart file parts: the declared content-type, as its tokens, and the size.
Png == <<"image", "/", "png">>
Pdf == <<"application", "/", "pdf">>

\* the parts sent to /uploadImage: the accepted ones, a PDF, and a 6 MiB image.
Parts ==
  [email : {MixedCase, LowerCase}, mimetype : {Png}, size : {5 * 1024 * 1024}]
  \cup { [email |-> LowerCase, mimetype |-> Pdf, size |-> 5 * 1024 * 1024],
         [email |-> LowerCase, mimetype |-> Png, size |-> 6 * 1024 * 1024] }

originalname == <<"a", ".", "png">>

\* ---------------------------------------------------------------- upload.js
\* limits: { fileSize: 5 * 1024 * 1024 }
fileSize == 5 * 1024 * 1024

\* fileFilter: /jpeg|jpg|png|gif/.test(file.mimetype), evaluated twice.
fileFilter(mimetype) ==
  LET fileTypes == {"jpeg", "jpg", "png", "gif"}
      extname == \E i \in DOMAIN mimetype : mimetype[i] \in fileTypes
      mime == \E i \in DOMAIN mimetype : mimetype[i] \in fileTypes
  IN extname /\ mime

\* diskStorage: destination "images/", filename Date.now() + "-" + originalname
filename(t, name) == <<t, "-", name>>
destination(fname) == <<"images/">> \o fname

\* ---------------------------------------------------------------- User.js
\* bcrypt.hash(data, rounds): the bcrypt string of data, "$2a$<rounds>$...".
\* The salt is drawn inside the library and is part of the string; no code of
\* the repository reads it, so the string is modelled by what it is a hash of.
rounds == 10

\* a hash that returns its input.
PlainText(data, cost) == data

bcryptHash(data, cost) == <<"$2a$", cost, data>>

\* userSchema.pre('save'): re-hash the password when it was modified.
preSave(password, isModified) ==
  IF isModified THEN bcryptHash(password, rounds) ELSE password

\* a collection without the unique index.
NoIndex(store, doc) == FALSE

\* the unique index on email: another document already holds doc's email.
DuplicateKey(store, doc) ==
  \E u \in store : u.email = doc.email /\ u.id # doc.id

\* the schema's validators, run by save() before the hooks: fullName matches
\* /^[A-Za-z\s]+$/, email matches /^[^\s@]+@[^\s@]+\.[^\s@]+$/, all required.
SchemaValid(doc) ==
  /\ matchesFullName(doc.fullName)
  /\ Count(doc.email, {"@"}) = 1 /\ Count(doc.email, Whitespace) = 0
  /\ \E at, dot \in DOMAIN doc.email :
       /\ doc.email[at] = "@" /\ doc.email[dot] = "."
       /\ 1 < at /\ at + 1 < dot /\ dot < Len(doc.email)
  /\ doc.password # <<>>

\* User.findOne({ email }): the documents matching the filter (at most one).
findOne(store, email) == {u \in store : u.email = email}

\* User.find({}, "fullName email password "): the projection of every document.
find(store) ==
  {[id |-> u.id, fullName |-> u.fullName, email |-> u.email, password |-> u.password] :
     u \in store}

\* doc.save() of a loaded document: updateOne({_id}, {$set: modified paths});
\* the callers answer 500 when no document has that _id any more.
updateOne(store, id, changes) ==
  {IF u.id = id THEN [f \in DOMAIN u |-> IF f \in DOMAIN changes THEN changes[f] ELSE u[f]]
               ELSE u : u \in store}

\* ---------------------------------------------------------------- state
VARIABLES
  users,    \* the users collection: documents {id, fullName, email, password, imagePath}
  files,    \* the paths present in the images/ directory
  now,      \* Date.now()
  nextId,   \* the next ObjectId
  received, \* requests received so far
  reqs,     \* the bag of requests in flight: req.body, req.file, the handler's locals
  res       \* the last response sent

vars == <<users, files, now, nextId, received, reqs, res>>

NoFile == [filename |-> <<>>, path |-> <<>>]

Request ==
  [op |-> "none", pc |-> "received", email |-> <<>>, fullName |-> <<>>,
   password |-> <<>>, hashedPassword |-> <<>>, doc |-> 0, mimetype |-> <<>>,
   size |-> 0, file |-> NoFile]

NoResponse == [op |-> "none", status |-> 0, error |-> "", users |-> {}]

Init ==
  /\ users = {}
  /\ files = {}
  /\ now = 0
  /\ nextId = 1
  /\ received = 0
  /\ reqs = EmptyBag
  /\ res = NoResponse

InFlight == BagToSet(reqs)

\* the server takes the next request: req.body (and the file part) as sent.
Receive(req) ==
  /\ BagCardinality(reqs) < MaxInFlight
  /\ received < MaxRequests
  /\ received' = received + 1
  /\ reqs' = reqs (+) SetToBag({req})

\* res.status(code).json({error}): the request is answered.
Respond(q, code, error) ==
  /\ reqs' = reqs (-) SetToBag({q})
  /\ res' = [NoResponse EXCEPT !.op = q.op, !.status = code, !.error = error]

\* the request suspends at its next await.
Goto(q, req, label) ==
  /\ reqs' = (reqs (-) SetToBag({q})) (+) SetToBag({[req EXCEPT !.pc = label]})
  /\ UNCHANGED res

At(q, op, label) == q \in InFlight /\ q.op = op /\ q.pc = label

\* ---------------------------------------------------------------- POST /create
CreateReceive ==
  /\ \E b \in Bodies :
       Receive([Request EXCEPT !.op = "create", !.email = b.email,
                               !.fullName = b.fullName, !.password = b.password])
  /\ UNCHANGED <<users, files, now, nextId, res>>

\* the validators, then the handler up to its first await.
CreateValidate ==
  \E q \in InFlight :
    /\ At(q, "create", "received")
    /\ IF CreateErrors(q.email, q.fullName, q.password) # {}
         THEN Respond(q, 400, "Validation failed")
         ELSE Goto(q, [q EXCEPT !.email = normalizeEmail(q.email)], "findOne")
    /\ UNCHANGED <<users, files, now, nextId, received>>

CreateFindOne ==
  \E q \in InFlight :
    /\ At(q, "create", "findOne")
    /\ IF findOne(users, q.email) # {}
         THEN Respond(q, 400, "Email already registered")
         ELSE Goto(q, [q EXCEPT !.hashedPassword = bcryptHash(q.password, rounds)], "save")
    /\ UNCHANGED <<users, files, now, nextId, received>>

CreateSave ==
  \E q \in InFlight :
    /\ At(q, "create", "save")
    /\ LET newUser == [id |-> nextId, fullName |-> q.fullName, email |-> q.email,
                       password |-> preSave(q.hashedPassword, TRUE),
                       imagePath |-> <<>>]
       IN IF ~SchemaValid(newUser) \/ DuplicateKey(users, newUser)
            THEN /\ Respond(q, 500, "User creation failed")
                 /\ UNCHANGED <<users, nextId>>
            ELSE /\ users' = users \cup {newUser}
                 /\ nextId' = nextId + 1
                 /\ Respond(q, 201, "")
    /\ UNCHANGED <<files, now, received>>

\* ---------------------------------------------------------------- PUT /edit
EditReceive ==
  /\ \E b \in Bodies :
       Receive([Request EXCEPT !.op = "edit", !.email = b.email,
                               !.fullName = b.fullName, !.password = b.password])
  /\ UNCHANGED <<users, files, now, nextId, res>>

EditValidate ==
  \E q \in InFlight :
    /\ At(q, "edit", "received")
    /\ IF EditErrors(q.email, q.fullName, q.password) # {}
         THEN Respond(q, 400, "Validation failed")
         ELSE Goto(q, q, "findOne")
    /\ UNCHANGED <<users, files, now, nextId, received>>

EditFindOne ==
  \E q \in InFlight :
    /\ At(q, "edit", "findOne")
    /\ IF findOne(users, q.email) = {}
         THEN Respond(q, 404, "User not found")
         ELSE \E existingUser \in findOne(users, q.email) :
                Goto(q, [q EXCEPT !.doc = existingUser.id,
                                  !.hashedPassword = bcryptHash(q.password, rounds)], "save")
    /\ UNCHANGED <<users, files, now, nextId, received>>

EditSave ==
  \E q \in InFlight :
    /\ At(q, "edit", "save")
    /\ LET changes == [fullName |-> q.fullName,
                       password |-> preSave(q.hashedPassword, TRUE)]
       IN IF \E u \in users : u.id = q.doc
            THEN /\ users' = updateOne(users, q.doc, changes)
                 /\ Respond(q, 200, "")
            ELSE /\ Respond(q, 500, "User Updation failed")
                 /\ UNCHANGED users
    /\ UNCHANGED <<files, now, nextId, received>>

\* ---------------------------------------------------------------- DELETE /delete
DeleteReceive ==
  /\ \E e \in Emails :
       Receive([Request EXCEPT !.op = "delete", !.email = e])
  /\ UNCHANGED <<users, files, now, nextId, res>>

DeleteValidate ==
  \E q \in InFlight :
    /\ At(q, "delete", "received")
    /\ IF DeleteErrors(q.email) # {}
         THEN Respond(q, 400, "Validation failed")
         ELSE Goto(q, [q EXCEPT !.email = normalizeEmail(q.email)], "findOne")
    /\ UNCHANGED <<users, files, now, nextId, received>>

DeleteFindOne ==
  \E q \in InFlight :
    /\ At(q, "delete", "findOne")
    /\ IF findOne(users, q.email) = {}
         THEN Respond(q, 404, "User not found")
         ELSE \E existingUser \in findOne(users, q.email) :
                Goto(q, [q EXCEPT !.doc = existingUser.id], "deleteOne")
    /\ UNCHANGED <<users, files, now, nextId, received>>

\* existingUser.deleteOne() deletes by _id and succeeds when nothing matches.
DeleteOne ==
  \E q \in InFlight :
    /\ At(q, "delete", "deleteOne")
    /\ users' = {u \in users : u.id # q.doc}
    /\ Respond(q, 200, "")
    /\ UNCHANGED <<files, now, nextId, received>>

\* ---------------------------------------------------------------- GET /getAll
GetAllReceive ==
  /\ Receive([Request EXCEPT !.op = "getAll"])
  /\ UNCHANGED <<users, files, now, nextId, res>>

GetAll ==
  \E q \in InFlight :
    /\ At(q, "getAll", "received")
    /\ reqs' = reqs (-) SetToBag({q})
    /\ res' = [NoResponse EXCEPT !.op = "getAll", !.status = 200, !.users = find(users)]
    /\ UNCHANGED <<users, files, now, nextId, received>>

\* ---------------------------------------------------------------- POST /uploadImage
UploadReceive ==
  /\ \E p \in Parts :
       Receive([Request EXCEPT !.op = "upload", !.email = p.email,
                               !.mimetype = p.mimetype, !.size = p.size])
  /\ UNCHANGED <<users, files, now, nextId, res>>

\* upload.single("image") runs before the handler: a rejected part goes to
\* next(err), which the application answers through the default error handler
\* (multer removes what it wrote of an oversized part); an accepted part is on
\* disk when the handler starts.
UploadSingle ==
  \E q \in InFlight :
    /\ At(q, "upload", "received")
    /\ \E t \in now..MaxClock :
         LET fname == filename(t, originalname)
         IN /\ now' = t
            /\ IF ~fileFilter(q.mimetype) \/ q.size > fileSize
                 THEN /\ Respond(q, 500, "Internal Server Error")
                      /\ UNCHANGED files
                 ELSE /\ files' = files \cup {destination(fname)}
                      /\ Goto(q, [q EXCEPT !.file = [filename |-> fname,
                                                     path |-> destination(fname)]],
                              "findOne")
    /\ UNCHANGED <<users, nextId, received>>

UploadFindOne ==
  \E q \in InFlight :
    /\ At(q, "upload", "findOne")
    /\ IF findOne(users, q.email) = {}
         THEN Respond(q, 404, "User not found.")
         ELSE \E user \in findOne(users, q.email) :
                IF user.imagePath # <<>>
                  THEN Respond(q, 400, "Image already exists for this user.")
                  ELSE Goto(q, [q EXCEPT !.doc = user.id], "save")
    /\ UNCHANGED <<users, files, now, nextId, received>>

UploadSave ==
  \E q \in InFlight :
    /\ At(q, "upload", "save")
    /\ IF \E u \in users : u.id = q.doc
         THEN /\ users' = updateOne(users, q.doc, [imagePath |-> q.file.path])
              /\ Respond(q, 201, "")
         ELSE /\ Respond(q, 500, "Server error.")
              /\ UNCHANGED users
    /\ UNCHANGED <<files, now, nextId, received>>

\* ---------------------------------------------------------------- specification
Next ==
  \/ CreateReceive \/ CreateValidate \/ CreateFindOne \/ CreateSave
  \/ EditReceive \/ EditValidate \/ EditFindOne \/ EditSave
  \/ DeleteReceive \/ DeleteValidate \/ DeleteFindOne \/ DeleteOne
  \/ GetAllReceive \/ GetAll
  \/ UploadReceive \/ UploadSingle \/ UploadFindOne \/ UploadSave

Spec == Init /\ [][Next]_vars

\* the account operations alone: no request reads or writes imagePath or images/.
NextAccounts ==
  \/ CreateReceive \/ CreateValidate \/ CreateFindOne \/ CreateSave
  \/ EditReceive \/ EditValidate \/ EditFindOne \/ EditSave
  \/ DeleteReceive \/ DeleteValidate \/ DeleteFindOne \/ DeleteOne

SpecAccounts == Init /\ [][NextAccounts]_vars

\* ---------------------------------------------------------------- properties
\* request q takes this step
Moved(q) == CopiesIn(q, reqs') < CopiesIn(q, reqs)

\* request q is answered in this step, with res' its response
Answered(q) == Moved(q) /\ BagCardinality(reqs') < BagCardinality(reqs)

\* the stored users holding the email a request addresses
Holders(store, q) ==
  {u \in store : u.email = (IF q.pc = "received" THEN normalizeEmail(q.email) ELSE q.email)}

UniqueEmail(store) == \A u, v \in store : u.email = v.email => u = v

\* C1: in every reachable state the store holds at most one user per email,
\* and no step of a create request whose email a stored user holds adds,
\* removes or changes a user, nor is that request answered 201.
C1_OneUserPerEmail ==
  [][/\ UniqueEmail(users) /\ UniqueEmail(users')
     /\ \A q \in InFlight :
          (q.op = "create" /\ Moved(q) /\ Holders(users, q) # {})
            => /\ users' = users
               /\ (Answered(q) => res'.status \in {400, 500})]_vars

\* a create lost to the unique index while the holder of its email is stored
C1_Witness ==
  /\ res.op = "create" /\ res.status = 500
  /\ users # {}

\* C2: a valid create whose email is not stored ends with exactly one user of
\* that email, whose password differs from the plaintext; the lookup of a
\* create whose email is stored answers 400 "Email already registered" and
\* leaves the store as it was; no stored password is a submitted plaintext.
C2_CreateStoresHash ==
  [][/\ \A q \in InFlight :
          /\ (q.op = "create" /\ q.pc = "save" /\ Moved(q) /\ findOne(users, q.email) = {})
               => /\ res'.status = 201
                  /\ Cardinality(findOne(users', q.email)) = 1
                  /\ \A u \in findOne(users', q.email) : u.password # q.password
          /\ (q.op = "create" /\ q.pc = "findOne" /\ Moved(q) /\ findOne(users, q.email) # {})
               => /\ Answered(q)
                  /\ res'.status = 400 /\ res'.error = "Email already registered"
                  /\ users' = users
     /\ \A u \in users' : u.password \notin Passwords]_vars

\* a repeated create was refused while the created user is stored
C2_Witness ==
  /\ res.op = "create" /\ res.status = 400 /\ res.error = "Email already registered"
  /\ \E u \in users : u.password \notin Passwords

\* the fields of a received request that break the rule its route checks
Violations(q) ==
  {f \in {"email", "fullName", "password"} :
     \/ f = "email" /\ q.op \in {"create", "delete"} /\ ~isEmail(q.email)
     \/ f = "fullName" /\ q.op \in {"create", "edit"} /\ ~matchesFullName(q.fullName)
     \/ f = "password" /\ q.op \in {"create", "edit"} /\ ~isStrongPassword(q.password)}

C3_ImagePathSetOnce ==
  [][/\ \A u \in users, v \in users' :
          (u.id = v.id /\ u.imagePath # <<>>) => v.imagePath = u.imagePath
     /\ \A q \in InFlight :
          (/\ q.op = "upload" /\ q.pc = "findOne" /\ Moved(q)
           /\ \E u \in users : u.email = q.email /\ u.imagePath # <<>>)
            => (Answered(q) /\ res'.status = 400)]_vars

\* C5: an upload whose content-type is not an accepted image type, or whose
\* payload exceeds 5 MiB, is answered 400 and leaves the users unchanged.
C5_RejectedUploadIs400 ==
  [][\A q \in InFlight :
       (/\ q.op = "upload" /\ q.pc = "received" /\ Moved(q)
        /\ (~fileFilter(q.mimetype) \/ q.size > 5 * 1024 * 1024))
         => /\ Answered(q)
            /\ res'.status = 400
            /\ users' = users]_vars

\* C6: the file is stored only by an upload whose lookup found a user without
\* an image, and an upload answered 404 or 400 leaves no file of its own in
\* the content directory.
C6_StoreAfterLookup ==
  [][\A q \in InFlight :
       /\ (Moved(q) /\ files' # files)
            => (q.op = "upload" /\ q.pc = "save")
       /\ (q.op = "upload" /\ Answered(q) /\ res'.status \in {400, 404})
            => q.file.path \notin files']_vars

\* C7: a delete answered 200 leaves no user with its email in the store nor
\* in what getAll returns, and every other user unchanged; a delete whose
\* email no stored user holds is answered 404 and changes nothing.
C7_DeleteRemoves ==
  [][\A q \in InFlight :
       (q.op = "delete" /\ Answered(q) /\ q.pc \in {"findOne", "deleteOne"})
         => /\ (res'.status = 200)
                 => /\ findOne(users', q.email) = {}
                    /\ \A d \in find(users') : d.email # q.email
                    /\ {u \in users' : u.email # q.email} = {u \in users : u.email # q.email}
            /\ (q.pc = "findOne" /\ findOne(users, q.email) = {})
                 => (res'.status = 404 /\ users' = users)]_vars

\* C8: a valid create that is answered without adding a user, while a stored
\* user holds its email, is answered 400.
C8_DuplicateIs400 ==
  [][\A q \in InFlight :
       (/\ q.op = "create" /\ q.pc \in {"findOne", "save"} /\ Answered(q)
        /\ findOne(users, q.email) # {} /\ users' = users)
         => res'.status = 400]_vars

\* C9: after a successful create or edit the stored password is the hash of
\* the submitted plaintext, applied once.
C9_HashedOnce ==
  [][\A q \in InFlight :
       (/\ q.op \in {"create", "edit"} /\ q.pc = "save" /\ Answered(q)
        /\ res'.status \in {200, 201})
         => \A u \in users' :
              (u.email = q.email) => u.password = bcryptHash(q.password, rounds)]_vars

\* C10: when the user that create stores for an accepted email string e is in
\* the store, the lookup of an edit, delete or upload carrying e is not
\* answered 404.
C10_SameEmailFindsUser ==
  [][\A q \in InFlight :
       (/\ q.op \in {"edit", "delete", "upload"} /\ q.pc = "findOne" /\ Answered(q)
        /\ isEmail(q.email)
        /\ \E u \in users : u.email = normalizeEmail(q.email))
         => res'.status # 404]_vars

====
